---------------------------- MODULE Spec2Model ----------------------------
(***************************************************************************)
(* Role-structure extraction and tree rendering of AnsibleRoleDoc:         *)
(* AnsibleRoleDocGenerator._analyze_structure / _format_structure          *)
(* (src/ansible-doc-generator.py), duplicated in                           *)
(* AnsibleRoleDirDocGenerator (src/ansible-role-generator.py).             *)
(*                                                                         *)
(* Representation.                                                         *)
(*  - A path string is the sequence of segments str.split('/') returns    *)
(*    for it (never empty; "a/" is <<"a", "">>, "" is <<"">>).            *)
(*  - A Python value of the structure is a record with the same four      *)
(*    fields: t = "dict" with keys/vals in insertion order, or t = "list" *)
(*    with elems.                                                          *)
(*  - A text is the sequence of its lines (the text split on "\n"); the   *)
(*    empty text is <<>>.  A line is the record of the pieces its         *)
(*    f-string concatenates: indent (a sequence of four-character         *)
(*    blocks), branch, name, slash.  LineText is the concatenation.       *)
(***************************************************************************)
EXTENDS Integers, Sequences, FiniteSets, TLC

VARIABLES role_name, file_list, role_structure, raised, pc, rendered, path_index

vars == <<role_name, file_list, role_structure, raised, pc, rendered, path_index>>

----------------------------------------------------------------------------
(* Bounds of the model *)

\* total number of segments in a generated path list
MaxTotal == 4
\* number of _format_structure calls made on one structure
MaxRenders == 2

----------------------------------------------------------------------------
(* Python values *)

FILES == "__files__"

EmptyDict == [t |-> "dict", keys |-> <<>>, vals |-> <<>>, elems |-> <<>>]

PyList(xs) == [t |-> "list", keys |-> <<>>, vals |-> <<>>, elems |-> xs]

\* key in d
HasKey(d, k) == \E i \in 1..Len(d.keys) : d.keys[i] = k

KeyIndex(d, k) == CHOOSE i \in 1..Len(d.keys) : d.keys[i] = k

\* d[k]
GetItem(d, k) == d.vals[KeyIndex(d, k)]

\* as SetItem, but an existing key is taken out and put back last
SetItemMovesKey(d, k, v) ==
    LET kept == {i \in 1..Len(d.keys) : d.keys[i] # k}
        pick(seq) == [i \in 1..Cardinality(kept) |->
                        seq[CHOOSE m \in kept :
                              Cardinality({n \in kept : n <= m}) = i]]
    IN [d EXCEPT !.keys = Append(pick(d.keys), k),
                 !.vals = Append(pick(d.vals), v)]

\* as SetItem, but a new key goes first
SetItemFirst(d, k, v) ==
    IF HasKey(d, k)
    THEN [d EXCEPT !.vals[KeyIndex(d, k)] = v]
    ELSE [d EXCEPT !.keys = <<k>> \o @, !.vals = <<v>> \o @]

\* d[k] = v : an existing key keeps its position, a new key goes last
SetItem(d, k, v) ==
    IF HasKey(d, k)
    THEN [d EXCEPT !.vals[KeyIndex(d, k)] = v]
    ELSE [d EXCEPT !.keys = Append(@, k), !.vals = Append(@, v)]

\* d.pop(k) for a key that is present: the dict without it
PopItem(d, k) ==
    LET at == KeyIndex(d, k)
        keep == [i \in 1..(Len(d.keys) - 1) |-> IF i < at THEN i ELSE i + 1]
    IN [d EXCEPT !.keys = [i \in 1..(Len(d.keys) - 1) |-> d.keys[keep[i]]],
                 !.vals = [i \in 1..(Len(d.vals) - 1) |-> d.vals[keep[i]]]]

\* iteration over a value: a list's elements, a dict's keys
Iter(v) == IF v.t = "list" THEN v.elems ELSE v.keys

\* bool(v) of a container
Truthy(v) == Len(Iter(v)) > 0

----------------------------------------------------------------------------
(* String order of sorted(): code point order of the names of the model *)

StrOrder == <<"", "__files__", "a", "a.yml", "b", "c", "file1.txt",
              "file2.txt", "root.txt", "z.yml">>

Rank(s) == CHOOSE i \in 1..Len(StrOrder) : StrOrder[i] = s

RECURSIVE InsertSorted(_, _)
InsertSorted(s, x) ==
    IF s = <<>> THEN <<x>>
    ELSE IF Rank(x) < Rank(Head(s)) THEN <<x>> \o s
    ELSE <<Head(s)>> \o InsertSorted(Tail(s), x)

\* as Sorted, but a name is kept once
RECURSIVE SortedDistinct(_)
SortedDistinct(seq) ==
    IF seq = <<>> THEN <<>>
    ELSE LET rest == SortedDistinct(Tail(seq)) IN
         IF \E k \in 1..Len(rest) : rest[k] = Head(seq) THEN rest
         ELSE InsertSorted(rest, Head(seq))

\* as Sorted, but the sequence is left as given
SortedAsGiven(s) == s

RECURSIVE Sorted(_)
Sorted(s) == IF s = <<>> THEN <<>>
             ELSE InsertSorted(Sorted(SubSeq(s, 1, Len(s) - 1)), s[Len(s)])


----------------------------------------------------------------------------
(* _analyze_structure *)

Returned(v) == [exc |-> "", value |-> v]

Raised(e) == [exc |-> e, value |-> EmptyDict]

\* as StripRoleName, but nothing is removed
StripRoleNameNever(parts, name) == parts

\* as StripRoleName, but a path of one segment loses it too
StripRoleNameAlways(parts, name) ==
    IF parts[1] = name THEN Tail(parts) ELSE parts

\* "Ignore role name at the beginning of the path"
StripRoleName(parts, name) ==
    IF Len(parts) > 1 /\ parts[1] = name THEN Tail(parts) ELSE parts

\* as IsFilePart, but the last non-empty part is the file
IsFilePartLastNonEmpty(i, parts) ==
    parts[i] # "" /\ \A m \in (i + 1)..Len(parts) : parts[m] = ""

\* as IsFilePart, but an empty last part is a file too
IsFilePartAnyLast(i, parts) == i = Len(parts)

\* "if i == len(parts) - 1 and part", i counted from 1
IsFilePart(i, parts) == i = Len(parts) /\ parts[i] # ""

\* The inner loop "for i, part in enumerate(parts)" from index i on, with
\* current_level bound to cur: the value cur holds when the loop ends, or
\* the exception the loop raises.
RECURSIVE InsertParts(_, _, _)
InsertParts(cur, parts, i) ==
    IF i > Len(parts) THEN Returned(cur)
    ELSE LET part == parts[i] IN
      IF ~IsFilePart(i, parts) /\ part = "" THEN InsertParts(cur, parts, i + 1)
      ELSE IF cur.t = "list"
        \* "__files__" in a list is membership, but every use of
        \* current_level[...] on a list then raises
        THEN Raised("TypeError")
      ELSE IF IsFilePart(i, parts)
        THEN IF ~HasKey(cur, FILES)
             THEN Returned(SetItem(cur, FILES, PyList(<<part>>)))
             ELSE LET f == GetItem(cur, FILES) IN
                  IF f.t = "list"
                  THEN Returned(SetItem(cur, FILES, PyList(Append(f.elems, part))))
                  ELSE Raised("AttributeError")
      ELSE LET made == IF HasKey(cur, part) THEN cur
                       ELSE SetItem(cur, part, EmptyDict)
               sub == InsertParts(GetItem(made, part), parts, i + 1)
           IN IF sub.exc # "" THEN sub
              ELSE Returned(SetItem(made, part, sub.value))

\* One iteration of "for file_path in file_list"
AnalyzePath(structure, file_path, name) ==
    InsertParts(structure, StripRoleName(file_path, name), 1)

RECURSIVE AnalyzeFrom(_, _, _, _)
AnalyzeFrom(structure, paths, k, name) ==
    IF k > Len(paths) THEN Returned(structure)
    ELSE LET r == AnalyzePath(structure, paths[k], name) IN
         IF r.exc # "" THEN r ELSE AnalyzeFrom(r.value, paths, k + 1, name)

_analyze_structure(paths, name) == AnalyzeFrom(EmptyDict, paths, 1, name)

\* the number of paths the loop has taken up when it raises
RaisedAt(paths, name) ==
    CHOOSE k \in 1..Len(paths) :
        /\ _analyze_structure(SubSeq(paths, 1, k), name).exc # ""
        /\ \A m \in 1..(k - 1) : _analyze_structure(SubSeq(paths, 1, m), name).exc = ""

----------------------------------------------------------------------------
(* _format_structure *)

\* The tree-art pieces, in ASCII (a string of the model holds no other
\* character): BranchLast is U+2514 U+2500 U+2500 and a space, BranchMid is
\* U+251C U+2500 U+2500 and a space, Bar is U+2502 and three spaces.
BranchLast == "+-- "
BranchMid == "|-- "
Bar == "|   "
Blank == "    "

Line(indent, branch, name, slash) ==
    [indent |-> indent, branch |-> branch, name |-> name, slash |-> slash]

\* the line an empty element of "lines" leaves in the joined text
EmptyLine == Line(<<>>, "", "", "")

RECURSIVE Concat(_)
Concat(ss) == IF ss = <<>> THEN "" ELSE Head(ss) \o Concat(Tail(ss))

\* the string of a line
LineText(l) == Concat(l.indent) \o l.branch \o l.name \o l.slash

RECURSIVE Flatten(_)
Flatten(elems) ==
    IF elems = <<>> THEN <<>>
    ELSE (IF Head(elems) = <<>> THEN <<EmptyLine>> ELSE Head(elems))
         \o Flatten(Tail(elems))

\* "\n".join(elems), each element a text
Join(elems) ==
    IF Len(elems) = 0 THEN <<>>
    ELSE IF Len(elems) = 1 THEN elems[1]
    ELSE Flatten(elems)

\* is_last_dir = (i == len(items) - 1 and not files), i counted from 1
IsLastDir(i, n, files) == (i = n /\ ~Truthy(files))

\* is_last_file = (i == len(files) - 1), j counted from 1
IsLastFile(j, files) == (j = Len(Iter(files)))

Branch(last) == IF last THEN BranchLast ELSE BranchMid

\* as NewIndent, but a directory that is not the last gets no bar
NewIndentNoBar(prefix, indent, last) ==
    IF prefix = <<>> THEN <<Blank>> ELSE Append(indent, Blank)

\* as NewIndent, but the first level is treated like the others
NewIndentNoFirstLevel(prefix, indent, last) ==
    Append(indent, IF last THEN Blank ELSE Bar)

\* as NewIndent, but the bar goes under the last directory
NewIndentSwapped(prefix, indent, last) ==
    IF prefix = <<>> THEN <<Blank>>
    ELSE Append(indent, IF last THEN Bar ELSE Blank)

\* the indent handed to the recursive call for a directory
NewIndent(prefix, indent, last) ==
    IF prefix = <<>> THEN <<Blank>>
    ELSE Append(indent, IF last THEN Blank ELSE Bar)

\* the line of a directory
DirLine(prefix, indent, last, key) ==
    IF prefix = <<>> THEN Line(<<>>, "", key, "/")
    ELSE Line(indent, Branch(last), key, "/")

\* the line of a file
FileLine(prefix, indent, last, filename) ==
    IF prefix = <<>> THEN Line(<<>>, "", filename, "")
    ELSE Line(indent, Branch(last), filename, "")

\* as Lines, but the file loop runs first
LinesFilesFirst(dirElems, fileElems) == fileElems \o dirElems

\* "lines" when both loops are over: the directory loop runs first
Lines(dirElems, fileElems) == dirElems \o fileElems

\* files = structure.pop("__files__", []) if "__files__" in structure else []
\* as the pair of the value popped and the dict left
PopFiles(structure) ==
    IF HasKey(structure, FILES)
    THEN [files |-> GetItem(structure, FILES), rest |-> PopItem(structure, FILES)]
    ELSE [files |-> PyList(<<>>), rest |-> structure]

\* Returns the text and the structure as the call leaves it (the call pops
\* "__files__" from every dict it visits).  prefix is the sequence of keys
\* of the f"{prefix}/{key}" string: empty exactly at the first level.
RECURSIVE _format_structure(_, _, _)
_format_structure(structure, prefix, indent) ==
    LET popped == PopFiles(structure)
        files == popped.files
        rest == popped.rest
        n == Len(rest.keys)
        sub == [i \in 1..n |->
                  IF Truthy(rest.vals[i])
                  THEN _format_structure(rest.vals[i],
                           Append(prefix, rest.keys[i]),
                           NewIndent(prefix, indent, IsLastDir(i, n, files)))
                  ELSE [text |-> <<>>, structure |-> rest.vals[i]]]
        dirElems[i \in 0..n] ==
            IF i = 0 THEN <<>>
            ELSE dirElems[i - 1]
                 \o << <<DirLine(prefix, indent, IsLastDir(i, n, files),
                                 rest.keys[i])>> >>
                 \o (IF Truthy(rest.vals[i]) THEN <<sub[i].text>> ELSE <<>>)
        names == Sorted(Iter(files))
        fileElems == [j \in 1..Len(names) |->
                        <<FileLine(prefix, indent, IsLastFile(j, files), names[j])>>]
    IN [text |-> Join(Lines(dirElems[n], fileElems)),
        structure |-> [rest EXCEPT !.vals = [i \in 1..n |-> sub[i].structure]]]

----------------------------------------------------------------------------
(* Inputs *)

Segs == {"", "a", "b", FILES}

RoleNames == {"", "a"}

\* every path list whose paths hold at most budget segments in all
RECURSIVE PathLists(_)
PathLists(budget) ==
    {<<>>} \cup
    UNION {{<<p>> \o l : p \in [1..n -> Segs], l \in PathLists(budget - n)} :
           n \in 1..budget}

\* the path lists of the documented examples
RoundTripPaths == << <<"a", "b", "file1.txt">>, <<"a", "c", "file2.txt">>,
                     <<"root.txt">> >>

SortPaths == << <<"a", "z.yml">>, <<"a", "a.yml">> >>

NestedPaths == << <<"b", "a", "b">>, <<"b", "b", "a">>, <<"b", "b">>, <<"b", "a">> >>

Examples == {RoundTripPaths, SortPaths, NestedPaths}

----------------------------------------------------------------------------
(* The generator object *)

Init ==
    /\ role_name \in RoleNames
    /\ file_list \in PathLists(MaxTotal) \cup Examples
    /\ role_structure = EmptyDict
    /\ raised = ""
    /\ pc = "new"
    /\ rendered = <<>>
    /\ path_index = 0

\* extract_role_info: self.role_structure = self._analyze_structure(file_list)
ExtractRoleInfo ==
    /\ pc = "new"
    /\ LET r == _analyze_structure(file_list, role_name) IN
         /\ r.exc = ""
         /\ role_structure' = r.value
         /\ pc' = "extracted"
    /\ path_index' = Len(file_list)
    /\ UNCHANGED <<role_name, file_list, raised, rendered>>

\* extract_role_info when _analyze_structure raises
ExtractRoleInfoRaises ==
    /\ pc = "new"
    /\ LET r == _analyze_structure(file_list, role_name) IN
         /\ r.exc # ""
         /\ raised' = r.exc
         /\ pc' = "failed"
    /\ path_index' = RaisedAt(file_list, role_name)
    /\ UNCHANGED <<role_name, file_list, role_structure, rendered>>

\* structure_text = self._format_structure(role_info['structure'])
FormatStructure ==
    /\ pc = "extracted"
    /\ Len(rendered) < MaxRenders
    /\ LET r == _format_structure(role_structure, <<>>, <<>>) IN
         /\ rendered' = Append(rendered, r.text)
         /\ role_structure' = r.structure
    /\ UNCHANGED <<role_name, file_list, raised, pc, path_index>>

Next == ExtractRoleInfo \/ ExtractRoleInfoRaises \/ FormatStructure

Spec == Init /\ [][Next]_vars

----------------------------------------------------------------------------
(* Vocabulary of the properties *)

\* the strings of the lines of a text
Texts(t) == [i \in 1..Len(t) |-> LineText(t[i])]

\* the tree _analyze_structure returns for the inputs of this run
Built == _analyze_structure(file_list, role_name).value

\* the file entries of a node: the "__files__" list
FileEntries(d) ==
    IF HasKey(d, FILES) /\ GetItem(d, FILES).t = "list"
    THEN GetItem(d, FILES).elems ELSE <<>>

\* the child directories of a node: the keys that hold a dict
ChildDirs(d) == {d.keys[i] : i \in {j \in 1..Len(d.keys) : d.vals[j].t = "dict"}}

\* the paths of the directory nodes of a tree, the root being <<>>
RECURSIVE NodePaths(_)
NodePaths(d) ==
    {<<>>} \cup
    UNION {{<<k>> \o q : q \in NodePaths(GetItem(d, k))} : k \in ChildDirs(d)}

RECURSIVE NodeAt(_, _)
NodeAt(d, path) ==
    IF path = <<>> THEN d ELSE NodeAt(GetItem(d, Head(path)), Tail(path))

Count(seq, x) == Cardinality({i \in 1..Len(seq) : seq[i] = x})

IsPermutation(s, t) ==
    /\ Len(s) = Len(t)
    /\ \A i \in 1..Len(s) : Count(s, s[i]) = Count(t, s[i])

\* the lines of a text that name an entry
IsEntry(l) == l # EmptyLine
EntryLines(t) == SelectSeq(t, IsEntry)

Depth(l) == Len(l.indent)
IsDirLine(l) == l.slash = "/"

\* the nearest earlier line of smaller depth, 0 when there is none
ParentIdx(E, i) ==
    LET c == {j \in 1..(i - 1) : Depth(E[j]) < Depth(E[i])} IN
    IF c = {} THEN 0 ELSE CHOOSE j \in c : \A k \in c : k <= j

\* the lines directly under line i (under the root when i = 0)
ChildLines(E, i) == {j \in 1..Len(E) : ParentIdx(E, j) = i}

RECURSIVE LinePath(_, _)
LinePath(E, i) ==
    IF ParentIdx(E, i) = 0 THEN <<E[i].name>>
    ELSE Append(LinePath(E, ParentIdx(E, i)), E[i].name)

\* the directory segments of a split path: the non-empty parts before the last
NonEmpty(x) == x # ""
DirsOf(parts) == SelectSeq(SubSeq(parts, 1, Len(parts) - 1), NonEmpty)

IsPrefix(q, s) == Len(q) <= Len(s) /\ SubSeq(s, 1, Len(q)) = q

\* the first path of file_list that walks through directory q, 0 when none does
FirstSeen(q) ==
    LET c == {k \in 1..Len(file_list) :
                IsPrefix(q, DirsOf(StripRoleName(file_list[k], role_name)))} IN
    IF c = {} THEN 0 ELSE CHOOSE k \in c : \A m \in c : k <= m

----------------------------------------------------------------------------
(* Properties *)

\* C1: the tree built from a/b/file1.txt, a/c/file2.txt, root.txt with an
\* empty role name renders, the first time, as exactly the six documented
\* lines in the documented order.
C1_RoundTrip ==
    (file_list = RoundTripPaths /\ role_name = "" /\ Len(rendered) >= 1)
    => Texts(rendered[1]) = <<"a/",
                              "    |-- b/",
                              "    |   +-- file1.txt",
                              "    +-- c/",
                              "        +-- file2.txt",
                              "root.txt">>

C1_Witness ==
    file_list = RoundTripPaths /\ role_name = "" /\ Len(rendered) = 1

\* C2: rendering the same tree object twice in a row returns the same text
\* both times.
C2_Idempotent == Len(rendered) >= 2 => rendered[2] = rendered[1]

\* C3: _format_structure leaves the tree passed to it unchanged.
C3_ReadOnly == [][FormatStructure => role_structure' = role_structure]_vars

\* C4: _analyze_structure returns a tree without raising for every path
\* list and role name (and _format_structure then returns a text).
C4_Total == pc # "failed" /\ raised = ""

\* C5: in the returned tree no name is both a child directory and a file
\* entry of the same node.
C5_Disjoint ==
    (pc = "extracted" /\ rendered = <<>>)
    => \A q \in NodePaths(role_structure) :
         LET node == NodeAt(role_structure, q) IN
         \A i \in 1..Len(FileEntries(node)) :
            FileEntries(node)[i] \notin ChildDirs(node)

\* C6: in the returned tree each file name occurs at most once among the
\* file entries of a node.
C6_Deduplicated ==
    (pc = "extracted" /\ rendered = <<>>)
    => \A q \in NodePaths(role_structure) :
         LET files == FileEntries(NodeAt(role_structure, q)) IN
         \A i \in 1..Len(files) : Count(files, files[i]) = 1

\* every line below the first level sits directly in the run of lines that
\* follows the line of its directory
SubtreesFollow(E) ==
    \A i \in 1..Len(E) :
        Depth(E[i]) > 0 =>
            /\ ParentIdx(E, i) > 0
            /\ IsDirLine(E[ParentIdx(E, i)])
            /\ Depth(E[ParentIdx(E, i)]) = Depth(E[i]) - 1

\* among the lines directly under one node no file line precedes a
\* directory line
DirsBeforeFiles(E) ==
    \A i, j \in 1..Len(E) :
        (i < j /\ ParentIdx(E, i) = ParentIdx(E, j) /\ Depth(E[i]) = Depth(E[j])
           /\ IsDirLine(E[j]))
        => IsDirLine(E[i])

\* C7: in every text _format_structure returns, the line of a directory is
\* immediately followed by the lines of its subtree, and at every node
\* every directory line (with its subtree) precedes every file line,
\* whatever the names.
C7_DirsFirst ==
    \A k \in 1..Len(rendered) :
        LET E == EntryLines(rendered[k]) IN
        SubtreesFollow(E) /\ DirsBeforeFiles(E)

\* a first rendering in which one node shows a directory with content, and
\* after it a file whose name sorts before the directory's
C7_Witness ==
    /\ Len(rendered) = 1
    /\ LET E == EntryLines(rendered[1]) IN
       \E i, j \in 1..Len(E) :
          /\ i < j /\ ParentIdx(E, i) = ParentIdx(E, j)
          /\ Depth(E[i]) = Depth(E[j]) /\ Depth(E[i]) > 0
          /\ IsDirLine(E[i]) /\ ~IsDirLine(E[j])
          /\ Rank(E[j].name) < Rank(E[i].name)
          /\ ChildLines(E, i) # {}

\* the last-child rule at the directory line i of E
LastChildRule(E, i) ==
    LET c == ChildLines(E, i) IN
    /\ c # {}
    /\ \A j \in c :
         E[j].branch = (IF \A m \in c : m <= j THEN BranchLast ELSE BranchMid)

\* C8: on the first rendering of a built tree every directory other than
\* the root that has a child (a directory or a file) has a line, exactly
\* one line directly under it carries BranchLast, that line is the last
\* one directly under it, and the others carry BranchMid.
C8_LastChildGlyph ==
    Len(rendered) >= 1 =>
      LET E == EntryLines(rendered[1]) IN
      \A q \in NodePaths(Built) :
         (q # <<>> /\ Truthy(NodeAt(Built, q))) =>
            \E i \in 1..Len(E) :
               /\ IsDirLine(E[i])
               /\ LinePath(E, i) = q
               /\ LastChildRule(E, i)

\* the file lines directly under line i of E, in the order emitted
FileLinesUnder(E, i) ==
    LET IsFileUnder(j) == ParentIdx(E, j) = i /\ ~IsDirLine(E[j])
        idx == SelectSeq([j \in 1..Len(E) |-> j], IsFileUnder)
    IN [m \in 1..Len(idx) |-> E[idx[m]]]

\* C9: under every directory line the file lines come in ascending
\* lexicographic order, every one but the last with BranchMid and the last
\* with BranchLast; on the first rendering they are the file entries of
\* that directory, whatever their order in the path list.  Files z.yml and
\* a.yml of one directory without subdirectories give a.yml with BranchMid,
\* then z.yml with BranchLast.
C9_FilesSorted ==
    /\ \A k \in 1..Len(rendered) :
         LET E == EntryLines(rendered[k]) IN
         \A i \in 1..Len(E) :
            IsDirLine(E[i]) =>
              LET F == FileLinesUnder(E, i) IN
              /\ \A m \in 1..Len(F) :
                   /\ m < Len(F) => Rank(F[m].name) <= Rank(F[m + 1].name)
                   /\ F[m].branch = (IF m = Len(F) THEN BranchLast ELSE BranchMid)
              /\ (k = 1 /\ FileEntries(NodeAt(Built, LinePath(E, i))) # <<>>)
                   => IsPermutation([m \in 1..Len(F) |-> F[m].name],
                                    FileEntries(NodeAt(Built, LinePath(E, i))))
    /\ (file_list = SortPaths /\ role_name = "" /\ Len(rendered) >= 1)
         => Texts(rendered[1]) = <<"a/", "    |-- a.yml", "    +-- z.yml">>

\* a first rendering of a directory whose files came in descending order
C9_Witness ==
    /\ Len(rendered) = 1
    /\ \E q \in NodePaths(Built) :
         LET files == FileEntries(NodeAt(Built, q)) IN
         /\ q # <<>>
         /\ Len(files) >= 2
         /\ Rank(files[1]) > Rank(files[2])
         /\ \E i \in 1..Len(EntryLines(rendered[1])) :
              /\ IsDirLine(EntryLines(rendered[1])[i])
              /\ LinePath(EntryLines(rendered[1]), i) = q
              /\ Len(FileLinesUnder(EntryLines(rendered[1]), i)) >= 2

----------------------------------------------------------------------------
(* Shape of a tree *)

\* the file names of a node with the number of times each is recorded
FileBag(d) ==
    {<<FileEntries(d)[i], Count(FileEntries(d), FileEntries(d)[i])>> :
       i \in 1..Len(FileEntries(d))}

\* the directory names and the file names of every node, order left out
RECURSIVE Shape(_)
Shape(d) ==
    [dirs |-> {<<k, Shape(GetItem(d, k))>> : k \in ChildDirs(d)},
     files |-> FileBag(d)]

\* the orderings of n things
Orderings(n) == {f \in [1..n -> 1..n] : \A i, j \in 1..n : f[i] = f[j] => i = j}

Reordered(paths, f) == [i \in 1..Len(paths) |-> paths[f[i]]]

\* C11: for a fixed role name every reordering of the path list gives a
\* tree with the same directory names and the same file names at every
\* node.
C11_OrderInsensitiveShape ==
    (pc = "extracted" /\ rendered = <<>>) =>
      \A f \in Orderings(Len(file_list)) :
         LET r == _analyze_structure(Reordered(file_list, f), role_name) IN
         r.exc = "" /\ Shape(r.value) = Shape(role_structure)

\* the tree of the one path of file_list with the role name put before it
WithRolePrefix == _analyze_structure(<< <<role_name>> \o file_list[1] >>, role_name)

OnePathBuilt ==
    pc = "extracted" /\ rendered = <<>> /\ Len(file_list) = 1

\* C12 as claimed: for every non-empty role name r and every path p, the
\* path r/p gives the same tree as p.
C12_StripEquivalence ==
    (OnePathBuilt /\ role_name # "")
    => WithRolePrefix = Returned(role_structure)

\* C12: for every non-empty role name r and every path p that has a single
\* segment or whose first segment is not r, the path r/p gives the same
\* tree as p (one leading r is removed, never two).
C12_StripOnce ==
    (OnePathBuilt /\ role_name # ""
       /\ ~(Len(file_list[1]) > 1 /\ file_list[1][1] = role_name))
    => WithRolePrefix = Returned(role_structure)

\* a tree with a directory, built from a path that does not begin with the
\* role name
C12_Witness ==
    /\ OnePathBuilt /\ role_name = "a"
    /\ Len(file_list[1]) > 1 /\ file_list[1][1] = "b"
    /\ ChildDirs(role_structure) = {"b"}
    /\ WithRolePrefix = Returned(role_structure)

\* the dict with the one key k
OneKey(k, v) == [t |-> "dict", keys |-> <<k>>, vals |-> <<v>>, elems |-> <<>>]

\* the tree of nested directories dirs, the innermost holding the file
\* last when last is not empty
RECURSIVE ChainTree(_, _)
ChainTree(dirs, last) ==
    IF dirs # <<>> THEN OneKey(Head(dirs), ChainTree(Tail(dirs), last))
    ELSE IF last = "" THEN EmptyDict
    ELSE OneKey(FILES, PyList(<<last>>))

\* C13 as claimed: the empty segments are removed first and the last
\* segment left is the file, so a path with a trailing separator gives the
\* tree of the path without it.
C13_TrailingSeparator ==
    OnePathBuilt =>
      LET ne == SelectSeq(StripRoleName(file_list[1], role_name), NonEmpty) IN
      role_structure = IF ne = <<>> THEN EmptyDict
                       ELSE ChainTree(SubSeq(ne, 1, Len(ne) - 1), ne[Len(ne)])

\* C13: the empty segments are skipped, but a segment is recorded as a file
\* only when it stands last in the split path and is not empty; every
\* non-empty segment before the last position is a directory.  A path
\* with a trailing separator records no file: its last non-empty segment
\* is a directory.
C13_FileOnlyInLastPosition ==
    OnePathBuilt =>
      LET parts == StripRoleName(file_list[1], role_name) IN
      role_structure = ChainTree(DirsOf(parts), parts[Len(parts)])

\* the path b/a/ built into the directories b and b/a, with no file
C13_Witness ==
    /\ OnePathBuilt
    /\ file_list[1] = <<"b", "a", "">>
    /\ role_structure = OneKey("b", OneKey("a", EmptyDict))

IsBranch(b) == b \in {BranchLast, BranchMid}

\* a line of E for the entry at path q, a directory or not
HasLine(E, q, indent, slash) ==
    \E i \in 1..Len(E) :
       /\ LinePath(E, i) = q
       /\ E[i].indent = indent
       /\ E[i].slash = slash
       /\ IF indent = <<>> THEN E[i].branch = "" ELSE IsBranch(E[i].branch)

SingleSegment ==
    Len(file_list) = 1 /\ Len(file_list[1]) = 1 /\ file_list[1][1] # ""

\* C15: a path of a single non-empty segment f, whatever the role name
\* (f itself included), is recorded as the file f of the root, with no
\* directory, and renders as the one line f, without glyph or indentation.
C15_SingleSegment ==
    (SingleSegment /\ pc = "extracted") =>
       /\ Built = OneKey(FILES, PyList(<<file_list[1][1]>>))
       /\ rendered = <<>> => role_structure = Built
       /\ Len(rendered) >= 1 => Texts(rendered[1]) = <<file_list[1][1]>>

\* the file a of the role a, rendered
C15_Witness ==
    /\ SingleSegment /\ role_name = "a" /\ file_list[1][1] = "a"
    /\ Len(rendered) = 1
    /\ Texts(rendered[1]) = <<"a">>

\* every segment of every path is empty
AllSegmentsEmpty ==
    \A k \in 1..Len(file_list) :
       \A m \in 1..Len(file_list[k]) : file_list[k][m] = ""

\* C16: an empty path list, or one whose segments are all empty, gives the
\* empty tree; and an empty tree, however it came about, renders as no
\* line at all.
C16_EmptyInEmptyOut ==
    pc = "extracted" =>
       /\ AllSegmentsEmpty => Built = EmptyDict
       /\ Built = EmptyDict =>
            /\ role_structure = EmptyDict
            /\ \A k \in 1..Len(rendered) : rendered[k] = <<>>

\* the paths "" and "/" rendered
C16_Witness ==
    /\ file_list = << <<"">>, <<"", "">> >>
    /\ role_structure = EmptyDict
    /\ rendered = << <<>> >>

----------------------------------------------------------------------------
(* _analyze_structure one path at a time.  While the loop runs,
   role_structure holds the local "structure"; it is the field once the
   method has returned. *)

\* as Advance, but the loop stays on the same path
AdvanceStuck(k) == k

\* "for file_path in file_list" moving to the next path
Advance(k) == k + 1

\* one iteration of the outer loop that ends normally
AnalyzeStep ==
    /\ pc = "new"
    /\ path_index < Len(file_list)
    /\ LET r == AnalyzePath(role_structure, file_list[path_index + 1], role_name) IN
         /\ r.exc = ""
         /\ role_structure' = r.value
    /\ path_index' = Advance(path_index)
    /\ UNCHANGED <<role_name, file_list, raised, pc, rendered>>

\* one iteration of the outer loop that raises: the local is lost
AnalyzeStepRaises ==
    /\ pc = "new"
    /\ path_index < Len(file_list)
    /\ LET r == AnalyzePath(role_structure, file_list[path_index + 1], role_name) IN
         /\ r.exc # ""
         /\ raised' = r.exc
    /\ role_structure' = EmptyDict
    /\ pc' = "failed"
    /\ path_index' = Advance(path_index)
    /\ UNCHANGED <<role_name, file_list, rendered>>

\* "return structure" once the list is exhausted
AnalyzeReturn ==
    /\ pc = "new"
    /\ path_index = Len(file_list)
    /\ pc' = "extracted"
    /\ UNCHANGED <<role_name, file_list, role_structure, raised, rendered, path_index>>

NextSteps == AnalyzeStep \/ AnalyzeStepRaises \/ AnalyzeReturn \/ FormatStructure

SpecSteps == Init /\ [][NextSteps]_vars

\* the depth of the recursive calls _format_structure makes on a tree: a
\* call recurses into every directory whose dict is not empty
RECURSIVE RecursionDepth(_)
RecursionDepth(structure) ==
    LET rest == PopFiles(structure).rest
        deep == {i \in 1..Len(rest.keys) : Truthy(rest.vals[i])}
        depths == {1 + RecursionDepth(rest.vals[i]) : i \in deep}
    IN IF deep = {} THEN 0 ELSE CHOOSE x \in depths : \A y \in depths : y <= x

\* the largest number of segments of a path of the list, 0 for no path
MaxSegments(paths) ==
    LET lens == {Len(paths[k]) : k \in 1..Len(paths)} IN
    IF lens = {} THEN 0 ELSE CHOOSE x \in lens : \A y \in lens : y <= x

\* what is left to do: paths to take up, the return, the renderings
Remaining ==
    (Len(file_list) - path_index) + (IF pc = "new" THEN 1 ELSE 0)
    + (MaxRenders - Len(rendered))

Finished == pc = "failed" \/ (pc = "extracted" /\ Len(rendered) = MaxRenders)

C17_StateInvariant ==
    /\ Remaining >= 0
    /\ path_index <= Len(file_list)
    /\ Finished \/ pc = "new" \/ Len(rendered) < MaxRenders
    /\ pc = "extracted" =>
         /\ path_index = Len(file_list)
         /\ rendered = <<>> => role_structure = Built
         /\ RecursionDepth(role_structure) <= MaxSegments(file_list)
         /\ file_list # <<>> => 1 + RecursionDepth(role_structure) <= MaxSegments(file_list)

\* C17: _analyze_structure takes up each path once and then returns (or
\* raises), and every rendering returns: each step lessens what is left to
\* do, the loop never runs past the list, and the recursion of
\* _format_structure on the returned tree is never deeper than the largest
\* number of segments of an input path (the outermost call counted too,
\* unless the list is empty).
C17_Terminates ==
    [](C17_StateInvariant) /\ [][Remaining' < Remaining]_vars

\* three paths taken up one by one, the tree returned and rendered with
\* one level of recursion
C17_Witness ==
    /\ pc = "extracted" /\ path_index = 3 /\ Len(rendered) = MaxRenders
    /\ MaxSegments(file_list) = 2
    /\ RecursionDepth(Built) = 1

----------------------------------------------------------------------------
(* Indentation below the first level *)

\* the line above line i, or line i itself, that lies at depth k
RECURSIVE AncestorAt(_, _, _)
AncestorAt(E, i, k) ==
    IF Depth(E[i]) <= k \/ ParentIdx(E, i) = 0 THEN i
    ELSE AncestorAt(E, ParentIdx(E, i), k)

\* line j is the last of the lines directly under its parent
IsLastChildLine(E, j) == \A m \in ChildLines(E, ParentIdx(E, j)) : m <= j

NoFilesSegment(q) == \A k \in 1..Len(q) : q[k] # FILES

----------------------------------------------------------------------------
(* A directory named like the reserved key *)

\* the paths of file_list that put a file under a directory named "__files__"
UnderFilesDir ==
    {k \in 1..Len(file_list) :
       LET parts == StripRoleName(file_list[k], role_name) IN
       /\ parts[Len(parts)] # ""
       /\ ~NoFilesSegment(DirsOf(parts))}

\* C19: a path that puts a file x under a directory named "__files__" is
\* taken up without an exception; the tree returned holds that directory
\* as a dict with x among its files, and the first rendering has a
\* directory line for it and a file line for x below it.
C19_FilesDirectoryLikeAnyOther ==
    \A k \in UnderFilesDir :
       LET parts == StripRoleName(file_list[k], role_name)
           q == DirsOf(parts)
           x == parts[Len(parts)]
       IN
       pc # "new" =>
         /\ pc = "extracted"
         /\ q \in NodePaths(Built)
         /\ \E j \in 1..Len(FileEntries(NodeAt(Built, q))) :
               FileEntries(NodeAt(Built, q))[j] = x
         /\ Len(rendered) >= 1 =>
              LET E == EntryLines(rendered[1]) IN
              \E i \in 1..Len(E) :
                 /\ LinePath(E, i) = Append(q, x)
                 /\ ~IsDirLine(E[i])
                 /\ IsDirLine(E[ParentIdx(E, i)])
                 /\ LinePath(E, ParentIdx(E, i)) = q

----------------------------------------------------------------------------
(* AnsibleRoleDirDocGenerator, the generator that reads a directory.  Its
   paths come from os.walk and are split at os.sep; a path is held here as
   the sequence of its segments, which is what split(os.sep) yields when
   os.sep is "/". *)

\* "if len(parts) > 1 and parts[0] == self.role_name: parts = parts[1:]"
DirStripRoleName(parts, name) ==
    IF Len(parts) > 1 /\ Head(parts) = name
    THEN SubSeq(parts, 2, Len(parts)) ELSE parts

\* the file branch of the inner loop on current_level
DirAddFile(cur, part) ==
    LET withList == IF HasKey(cur, FILES) THEN cur
                    ELSE SetItem(cur, FILES, PyList(<<>>))
        held == GetItem(withList, FILES)
    IN IF held.t # "list" THEN Raised("AttributeError")
       ELSE Returned(SetItem(withList, FILES, PyList(held.elems \o <<part>>)))

\* the inner loop over parts[i..], current_level bound to cur
RECURSIVE DirInsertParts(_, _, _)
DirInsertParts(cur, parts, i) ==
    IF i > Len(parts) THEN Returned(cur)
    ELSE IF i = Len(parts) /\ parts[i] # ""
      THEN IF cur.t = "list" THEN Raised("TypeError")
           ELSE DirAddFile(cur, parts[i])
    ELSE IF parts[i] # ""
      THEN IF cur.t = "list" THEN Raised("TypeError")
           ELSE LET made == IF HasKey(cur, parts[i]) THEN cur
                            ELSE SetItem(cur, parts[i], EmptyDict)
                    sub == DirInsertParts(GetItem(made, parts[i]), parts, i + 1)
                IN IF sub.exc # "" THEN sub
                   ELSE Returned(SetItem(made, parts[i], sub.value))
    ELSE DirInsertParts(cur, parts, i + 1)

\* the outer loop from path k on
RECURSIVE DirAnalyzeFrom(_, _, _, _)
DirAnalyzeFrom(structure, paths, k, name) ==
    IF k > Len(paths) THEN Returned(structure)
    ELSE LET r == DirInsertParts(structure, DirStripRoleName(paths[k], name), 1) IN
         IF r.exc # "" THEN r ELSE DirAnalyzeFrom(r.value, paths, k + 1, name)

Dir_analyze_structure(paths, name) == DirAnalyzeFrom(EmptyDict, paths, 1, name)

\* as DirIsLastDir, but the files are not looked at
DirIsLastDirIgnoringFiles(i, n, files) == i = n

\* is_last_dir = (i == len(items) - 1 and not files), i counted from 1
DirIsLastDir(i, n, files) == i = n /\ ~Truthy(files)

\* new_indent for the recursive call
DirNewIndent(prefix, indent, is_last_dir) ==
    IF prefix = <<>> THEN <<Blank>>
    ELSE indent \o <<IF is_last_dir THEN Blank ELSE Bar>>

\* the line of an entry: bare at the first level, indent and branch below
DirEntryLine(prefix, indent, is_last, name, slash) ==
    IF prefix = <<>> THEN Line(<<>>, "", name, slash)
    ELSE Line(indent, IF is_last THEN BranchLast ELSE BranchMid, name, slash)

\* the text and the structure as the call leaves it
RECURSIVE Dir_format_structure(_, _, _)
Dir_format_structure(structure, prefix, indent) ==
    LET has == HasKey(structure, FILES)
        files == IF has THEN GetItem(structure, FILES) ELSE PyList(<<>>)
        items == IF has THEN PopItem(structure, FILES) ELSE structure
        n == Len(items.keys)
        call(i) == Dir_format_structure(items.vals[i],
                       Append(prefix, items.keys[i]),
                       DirNewIndent(prefix, indent, DirIsLastDir(i, n, files)))
        RECURSIVE dirLoop(_)
        dirLoop(i) ==
            IF i > n THEN <<>>
            ELSE << <<DirEntryLine(prefix, indent, DirIsLastDir(i, n, files),
                                   items.keys[i], "/")>> >>
                 \o (IF Truthy(items.vals[i]) THEN <<call(i).text>> ELSE <<>>)
                 \o dirLoop(i + 1)
        names == Sorted(Iter(files))
        fileLoop == [j \in 1..Len(names) |->
                       <<DirEntryLine(prefix, indent, j = Len(Iter(files)),
                                      names[j], "")>>]
    IN [text |-> Join(dirLoop(1) \o fileLoop),
        structure |->
          [items EXCEPT !.vals = [i \in 1..n |->
              IF Truthy(items.vals[i]) THEN call(i).structure
              ELSE items.vals[i]]]]

\* C20: for every path list and role name the two _analyze_structure
\* methods give the same outcome (the same tree with the same order of
\* keys and the same file entries, or the same exception), and on the tree
\* a generator holds the two _format_structure methods give the same text
\* and leave the same tree behind.
C20_SameCore ==
    /\ Dir_analyze_structure(file_list, role_name)
         = _analyze_structure(file_list, role_name)
    /\ pc = "extracted" =>
         Dir_format_structure(role_structure, <<>>, <<>>)
           = _format_structure(role_structure, <<>>, <<>>)

\* a tree not yet rendered, built from a list with a path that lost its
\* role name, whose text has lines below the first level
C20_Witness ==
    /\ pc = "extracted" /\ rendered = <<>>
    /\ \E k \in 1..Len(file_list) :
          DirStripRoleName(file_list[k], role_name) # file_list[k]
    /\ LET t == Dir_format_structure(role_structure, <<>>, <<>>).text IN
       \E i \in 1..Len(t) : t[i] # EmptyLine /\ t[i].branch = BranchLast

----------------------------------------------------------------------------
(* Every entry of the tree has its line *)

\* no segment of any path of the list is the reserved key
NoFilesSegmentInList == \A k \in 1..Len(file_list) : NoFilesSegment(file_list[k])

\* the file entries of a tree, each with the path of its node and its place
\* in the node's list
FileSlots(d) ==
    UNION {{<<q, j>> : j \in 1..Len(FileEntries(NodeAt(d, q)))} : q \in NodePaths(d)}

\* the lines of E for the entry at path q, directory lines or file lines
LinesFor(E, q, dir) ==
    {i \in 1..Len(E) : LinePath(E, i) = q /\ IsDirLine(E[i]) = dir}

\* C21: when no segment of the list is "__files__", the first rendering of
\* the built tree has no empty line, exactly one line ending in "/" for
\* every directory of the tree (the root, which has no name, left out),
\* empty directories included, and as many lines for a file name under a
\* directory as the directory records entries of that name; the number of
\* lines is the number of directories plus the number of file entries, and
\* every path of the list with a non-empty last segment has a file line
\* with that name under its directories.
C21_CompleteNoDuplicates ==
    (NoFilesSegmentInList /\ Len(rendered) >= 1) =>
      LET T == rendered[1]
          E == EntryLines(T)
          dirs == NodePaths(Built) \ {<<>>}
      IN
      /\ E = T
      /\ Len(T) = Cardinality(dirs) + Cardinality(FileSlots(Built))
      /\ \A q \in dirs :
            /\ Cardinality(LinesFor(E, q, TRUE)) = 1
            /\ \A i \in LinesFor(E, q, TRUE) : E[i].name = q[Len(q)]
      /\ \A q \in NodePaths(Built) :
            LET files == FileEntries(NodeAt(Built, q)) IN
            \A j \in 1..Len(files) :
               Cardinality(LinesFor(E, Append(q, files[j]), FALSE))
                 = Count(files, files[j])
      /\ \A i \in 1..Len(E) :
            IF IsDirLine(E[i]) THEN LinePath(E, i) \in dirs
            ELSE \E s \in FileSlots(Built) :
                   LinePath(E, i) = Append(s[1], FileEntries(NodeAt(Built, s[1]))[s[2]])
      /\ \A k \in 1..Len(file_list) :
            LET parts == StripRoleName(file_list[k], role_name) IN
            parts[Len(parts)] # "" =>
              LinesFor(E, Append(DirsOf(parts), parts[Len(parts)]), FALSE) # {}

\* a first rendering of a tree with an empty directory and a file name
\* recorded twice
C21_Witness ==
    /\ NoFilesSegmentInList /\ Len(rendered) = 1
    /\ \E q \in NodePaths(Built) : q # <<>> /\ NodeAt(Built, q) = EmptyDict
    /\ \E j \in 1..Len(FileEntries(Built)) :
          Count(FileEntries(Built), FileEntries(Built)[j]) = 2

----------------------------------------------------------------------------
(* The tree while it is built *)

\* new holds everything old holds, where old holds it: the keys of old are
\* the first keys of new in the same order, a directory of old is a
\* directory of new that holds everything it held, and the file names of
\* old are the first file names of new in the same order
RECURSIVE Holds(_, _)
Holds(new, old) ==
    /\ new.t = old.t
    /\ IF old.t = "list" THEN IsPrefix(old.elems, new.elems)
       ELSE /\ IsPrefix(old.keys, new.keys)
            /\ \A i \in 1..Len(old.keys) : Holds(new.vals[i], old.vals[i])

\* the structure held while the loop of _analyze_structure is running
Building == pc = "new" /\ NoFilesSegmentInList

\* C22: when no segment of the list is "__files__" the loop raises nothing,
\* and taking up one path leaves every directory under the same parent at
\* the same place among the parent's keys and every file entry at its
\* place in its list; it adds at most one file entry, and none when the
\* last segment of the path is empty.
C22_BuildOnlyGrows ==
    /\ [](NoFilesSegmentInList => raised = "" /\ pc # "failed")
    /\ [][Building =>
            /\ Holds(role_structure', role_structure)
            /\ Cardinality(FileSlots(role_structure'))
                 <= Cardinality(FileSlots(role_structure)) + 1
            /\ Cardinality(FileSlots(role_structure'))
                 >= Cardinality(FileSlots(role_structure))
            /\ (path_index' = path_index + 1) =>
                 LET parts == file_list[path_index'] IN
                 Cardinality(FileSlots(role_structure'))
                   = Cardinality(FileSlots(role_structure))
                     + (IF parts[Len(parts)] # "" THEN 1 ELSE 0)]_vars

\* the loop with two paths taken up and one to go, the structure holding
\* two directories and a file entry
C22_Witness ==
    /\ Building
    /\ path_index = 2 /\ Len(file_list) = 3
    /\ Cardinality(NodePaths(role_structure)) >= 3
    /\ FileSlots(role_structure) # {}

=============================================================================
